---------------------------- MODULE Spec2Model ----------------------------
(***************************************************************************)
(* Model of osi/src/config.cc: the INI-like configuration store, its       *)
(* line parser and its save (temp file, fsync, rename, fsync) protocol.    *)
(*                                                                         *)
(* A C string is a sequence of one-character strings.  A Store is the      *)
(* sequence of its sections, a section a record of its name and the        *)
(* sequence of its entries, an entry a record of key and value.            *)
(***************************************************************************)
EXTENDS Integers, Sequences, FiniteSets, TLC

Min(a, b) == IF a < b THEN a ELSE b

(* ------------------------------ bounds --------------------------------- *)
\* number of mutating calls made on one Store
MaxOps == 3

(* ----------------------------- C strings ------------------------------- *)
NL == "\n"

isspace(c) == c \in {" ", "\t", "\n", "\f", "\r"}

\* index of the first occurrence of character c in str, 0 when absent
RECURSIVE strchrFrom(_, _, _)
strchrFrom(str, c, i) ==
  IF i > Len(str) THEN 0
  ELSE IF str[i] = c THEN i
  ELSE strchrFrom(str, c, i + 1)

strchr(str, c) == strchrFrom(str, c, 1)

\* number of whitespace characters str starts with
RECURSIVE leading_spaces(_, _)
leading_spaces(str, i) ==
  IF i <= Len(str) /\ isspace(str[i]) THEN leading_spaces(str, i + 1)
  ELSE i - 1

\* str with its first n characters dropped
Drop(str, n) == SubSeq(str, n + 1, Len(str))

\* the text of several strings one after the other
RECURSIVE Concat(_)
Concat(strs) ==
  IF strs = <<>> THEN <<>> ELSE Head(strs) \o Concat(Tail(strs))

(* ------------------------- number formatting --------------------------- *)
DigitChars == <<"0", "1", "2", "3", "4", "5", "6", "7", "8", "9">>

\* snprintf("%u") of a non-negative number
RECURSIVE FormatUnsigned(_)
FormatUnsigned(n) ==
  IF n < 10 THEN <<DigitChars[n + 1]>>
  ELSE FormatUnsigned(n \div 10) \o <<DigitChars[(n % 10) + 1]>>

\* snprintf("%d")
FormatInt(n) ==
  IF n < 0 THEN <<"-">> \o FormatUnsigned(0 - n) ELSE FormatUnsigned(n)

(* ------------------------- ordered container --------------------------- *)
list_append(list, data) == Append(list, data)

\* removal of the node at position i (the node holding the pointer found)
list_remove(list, i) == SubSeq(list, 1, i - 1) \o SubSeq(list, i + 1, Len(list))

(* ------------------------------- Store --------------------------------- *)
config_new_empty == <<>>

section_new(name) == [name |-> name, entries |-> <<>>]

entry_new(key, value) == [key |-> key, value |-> value]

\* position of the first section called section, 0 when there is none
RECURSIVE section_find_from(_, _, _)
section_find_from(config, section, i) ==
  IF i > Len(config) THEN 0
  ELSE IF config[i].name = section THEN i
  ELSE section_find_from(config, section, i + 1)

section_find(config, section) == section_find_from(config, section, 1)

\* position, within a list of entries, of the first entry with that key
RECURSIVE key_find_from(_, _, _)
key_find_from(entries, key, i) ==
  IF i > Len(entries) THEN 0
  ELSE IF entries[i].key = key THEN i
  ELSE key_find_from(entries, key, i + 1)

\* position of the entry within its section, 0 when section or key is absent
entry_find(config, section, key) ==
  LET s == section_find(config, section)
  IN  IF s = 0 THEN 0 ELSE key_find_from(config[s].entries, key, 1)

config_has_section(config, section) == section_find(config, section) # 0

config_has_key(config, section, key) == entry_find(config, section, key) # 0

\* mutant: the value is stored as given
value_with_newline(value) == value

\* the text before the first newline of value
value_no_newline(value) ==
  LET newline_position == strchr(value, NL)
  IN  IF newline_position # 0 THEN SubSeq(value, 1, newline_position - 1)
      ELSE value

\* mutant: the entry is appended without a search for its key
config_set_string_append(config, section, key, value) ==
  LET found == section_find(config, section)
      withsec == IF found = 0 THEN list_append(config, section_new(section))
                 ELSE config
      s == IF found = 0 THEN Len(withsec) ELSE found
  IN  [withsec EXCEPT ![s].entries =
         list_append(@, entry_new(key, value_no_newline(value)))]

config_set_string(config, section, key, value) ==
  LET found == section_find(config, section)
      withsec == IF found = 0 THEN list_append(config, section_new(section))
                 ELSE config
      s == IF found = 0 THEN Len(withsec) ELSE found
      v == value_no_newline(value)
      e == key_find_from(withsec[s].entries, key, 1)
  IN  IF e # 0
      THEN [withsec EXCEPT ![s].entries[e].value = v]
      ELSE [withsec EXCEPT ![s].entries = list_append(@, entry_new(key, v))]

config_set_int(config, section, key, value) ==
  config_set_string(config, section, key, FormatInt(value))

config_set_uint16(config, section, key, value) ==
  config_set_string(config, section, key, FormatUnsigned(value))

config_set_uint64(config, section, key, value) ==
  config_set_string(config, section, key, FormatUnsigned(value))

config_set_bool(config, section, key, value) ==
  config_set_string(config, section, key,
                    IF value THEN <<"t", "r", "u", "e">>
                    ELSE <<"f", "a", "l", "s", "e">>)

config_get_string(config, section, key, def_value) ==
  LET s == section_find(config, section)
      e == entry_find(config, section, key)
  IN  IF e = 0 THEN def_value ELSE config[s].entries[e].value

\* the entries of one section of src set, in order, into ret
RECURSIVE clone_entries(_, _, _, _)
clone_entries(ret, name, entries, i) ==
  IF i > Len(entries) THEN ret
  ELSE clone_entries(config_set_string(ret, name, entries[i].key,
                                       entries[i].value),
                     name, entries, i + 1)

RECURSIVE clone_sections(_, _, _)
clone_sections(ret, src, i) ==
  IF i > Len(src) THEN ret
  ELSE clone_sections(clone_entries(ret, src[i].name, src[i].entries, 1),
                      src, i + 1)

config_new_clone(src) == clone_sections(config_new_empty, src, 1)

\* mutant: the entry is not looked for before the removal is reported
config_remove_key_unchecked(config, section, key) ==
  LET sec == section_find(config, section)
      entry == entry_find(config, section, key)
  IN  IF sec = 0 THEN [config |-> config, ret |-> FALSE]
      ELSE [config |-> [config EXCEPT ![sec].entries = list_remove(@, entry)],
            ret |-> TRUE]

\* the Store afterwards and the value returned
config_remove_section(config, section) ==
  LET sec == section_find(config, section)
  IN  IF sec = 0 THEN [config |-> config, ret |-> FALSE]
      ELSE [config |-> list_remove(config, sec), ret |-> TRUE]

config_remove_key(config, section, key) ==
  LET sec == section_find(config, section)
      entry == entry_find(config, section, key)
  IN  IF sec = 0 \/ entry = 0 THEN [config |-> config, ret |-> FALSE]
      ELSE [config |-> [config EXCEPT ![sec].entries = list_remove(@, entry)],
            ret |-> TRUE]

(* --------------------------- numeric getters --------------------------- *)
HexChars == <<"0", "1", "2", "3", "4", "5", "6", "7", "8", "9",
              "a", "b", "c", "d", "e", "f">>
HexUpper == <<"A", "B", "C", "D", "E", "F">>

\* the value of c as a digit, NoDigit for any other character
NoDigit == 99
DigitValue(c) ==
  IF \E d \in 1..16 : HexChars[d] = c
  THEN (CHOOSE d \in 1..16 : HexChars[d] = c) - 1
  ELSE IF \E d \in 1..6 : HexUpper[d] = c
  THEN (CHOOSE d \in 1..6 : HexUpper[d] = c) + 9
  ELSE NoDigit

\* the character at position i of a C string, "\0" at its end
CharAt(str, i) == IF i >= 1 /\ i <= Len(str) THEN str[i] ELSE "NUL"

\* the digits of the given base from position i on: the position after the
\* last one and the number they denote
RECURSIVE scan_digits(_, _, _, _)
scan_digits(str, i, base, acc) ==
  IF DigitValue(CharAt(str, i)) < base
  THEN scan_digits(str, i + 1, base, acc * base + DigitValue(CharAt(str, i)))
  ELSE [next |-> i, mag |-> acc]

\* strtol, strtoumax, strtoull with base 0: whitespace, a sign, "0x" or "0"
\* prefix, digits.  neg and mag are sign and magnitude of the number read,
\* end the number of characters up to endptr (0 when nothing was converted)
strto(str) ==
  LET first == leading_spaces(str, 1) + 1
      signed == CharAt(str, first) \in {"-", "+"}
      neg == CharAt(str, first) = "-"
      body == IF signed THEN first + 1 ELSE first
      hex == /\ CharAt(str, body) = "0"
             /\ CharAt(str, body + 1) \in {"x", "X"}
             /\ DigitValue(CharAt(str, body + 2)) < 16
      base == IF hex THEN 16 ELSE IF CharAt(str, body) = "0" THEN 8 ELSE 10
      start == IF hex THEN body + 2 ELSE body
      read == scan_digits(str, start, base, 0)
  IN  IF read.next = start THEN [neg |-> FALSE, mag |-> 0, end |-> 0]
      ELSE [neg |-> neg, mag |-> read.mag, end |-> read.next - 1]

\* *endptr == '\0'
at_end(str, conv) == conv.end = Len(str)

\* an unsigned 64-bit number as four 16-bit limbs, most significant first
U64(n) == <<0, 0, (n \div 65536) % 65536, n % 65536>>

\* 2^64 - n as limbs (n > 0): the number an unsigned conversion yields for -n
U64Negated(n) ==
  LET lo == n % 65536
      hi == (n \div 65536) % 65536
  IN  IF lo = 0 THEN <<65535, 65535, (65536 - hi) % 65536, 0>>
      ELSE <<65535, 65535, 65535 - hi, 65536 - lo>>

\* position of the entry and the entry itself, for the getters
entry_of(config, section, key) ==
  config[section_find(config, section)].entries[entry_find(config, section, key)]

\* the texts read here are short of the range of long and of int
config_get_int(config, section, key, def_value) ==
  IF entry_find(config, section, key) = 0 THEN def_value
  ELSE LET value == entry_of(config, section, key).value
           conv == strto(value)
           ret == IF conv.neg THEN 0 - conv.mag ELSE conv.mag
       IN  IF at_end(value, conv) THEN ret ELSE def_value

config_get_uint16(config, section, key, def_value) ==
  IF entry_find(config, section, key) = 0 THEN def_value
  ELSE LET value == entry_of(config, section, key).value
           conv == strto(value)
           ret == IF conv.neg THEN (65536 - (conv.mag % 65536)) % 65536
                  ELSE conv.mag % 65536
       IN  IF at_end(value, conv) THEN ret ELSE def_value

config_get_uint64(config, section, key, def_value) ==
  IF entry_find(config, section, key) = 0 THEN def_value
  ELSE LET value == entry_of(config, section, key).value
           conv == strto(value)
           ret == IF conv.neg /\ conv.mag > 0 THEN U64Negated(conv.mag)
                  ELSE U64(conv.mag)
       IN  IF at_end(value, conv) THEN ret ELSE def_value

(* ------------------------------ save text ------------------------------ *)
\* section->name[0] == '#'
is_comment(name) == Len(name) > 0 /\ name[1] = "#"

\* mutant: the header is written without its closing bracket
section_header_text_open(name) ==
  IF is_comment(name) THEN name ELSE <<"[">> \o name \o <<NL>>

\* fprintf(fp, "%s", name) or fprintf(fp, "[%s]\n", name)
section_header_text(name) ==
  IF is_comment(name) THEN name ELSE <<"[">> \o name \o <<"]", NL>>

\* fprintf(fp, "%s = %s\n", key, value)
entry_text(entry) == entry.key \o <<" ", "=", " ">> \o entry.value \o <<NL>>

RECURSIVE entries_writes(_, _)
entries_writes(entries, i) ==
  IF i > Len(entries) THEN <<>>
  ELSE <<entry_text(entries[i])>> \o entries_writes(entries, i + 1)

\* mutant: the separating newline is written after the last section too
RECURSIVE save_writes_all_separated(_, _)
save_writes_all_separated(config, i) ==
  IF i > Len(config) THEN <<>>
  ELSE <<section_header_text(config[i].name)>>
       \o entries_writes(config[i].entries, 1)
       \o <<(<<NL>>)>>
       \o save_writes_all_separated(config, i + 1)

\* the texts config_save hands to stdio, one per fprintf or fputc call
RECURSIVE save_writes(_, _)
save_writes(config, i) ==
  IF i > Len(config) THEN <<>>
  ELSE <<section_header_text(config[i].name)>>
       \o entries_writes(config[i].entries, 1)
       \o (IF i + 1 <= Len(config) THEN <<(<<NL>>)>> ELSE <<>>)
       \o save_writes(config, i + 1)

\* the complete text of the file config_save writes
save_text(config) == Concat(save_writes(config, 1))

(* -------------------------------- parser ------------------------------- *)
\* sizeof(line): the line buffer of config_parse
line_size == 1024

\* fgets(line, size, fp) on a stream that is not at its end: at most size - 1
\* characters, up to and including the first newline
fgets(stream, size) ==
  LET nl == strchr(stream, NL)
      n == IF nl # 0 /\ nl <= size - 1 THEN nl ELSE Min(Len(stream), size - 1)
  IN  [line |-> SubSeq(stream, 1, n), rest |-> Drop(stream, n)]

\* index the backwards scan of trim stops at: it never passes first
RECURSIVE trim_end(_, _, _)
trim_end(str, first, end) ==
  IF end > first /\ isspace(str[end]) THEN trim_end(str, first, end - 1)
  ELSE end

\* trim(str): ptr is the string returned, buf the text str itself holds
\* afterwards (a string of whitespace only is left as it is)
trim(str) ==
  LET lead == leading_spaces(str, 1)
  IN  IF lead = Len(str) THEN [ptr |-> <<>>, buf |-> str]
      ELSE LET end == trim_end(str, lead + 1, Len(str))
           IN  [ptr |-> SubSeq(str, lead + 1, end), buf |-> SubSeq(str, 1, end)]

\* while (((ch = fgetc(fp)) != EOF) && (ch != '\n'));
skip_line(stream) ==
  LET nl == strchr(stream, NL)
  IN  IF nl = 0 THEN <<>> ELSE Drop(stream, nl)

\* strlcpy(dst, src, size)
strlcpy(src, size) == SubSeq(src, 1, Min(Len(src), size - 1))

\* mutant: the comment is appended without a search for its text
parse_comment_always(config, line_ptr, size) ==
  list_append(config, section_new(strlcpy(line_ptr, size)))

\* mutant: the comment pseudo-section is put in front of the sections
parse_comment_first(config, line_ptr, size) ==
  LET comment == strlcpy(line_ptr, size)
  IN  IF section_find(config, comment) = 0
      THEN <<section_new(comment)>> \o config
      ELSE config

\* a line starting with '#': a comment pseudo-section, added once
parse_comment(config, line_ptr, size) ==
  LET comment == strlcpy(line_ptr, size)
  IN  IF section_find(config, comment) = 0
      THEN list_append(config, section_new(comment))
      ELSE config

\* a line that is neither comment nor header, split at its first '='
parse_entry(config, section, line_ptr) ==
  LET split == strchr(line_ptr, "=")
  IN  IF split = 0 THEN config
      ELSE config_set_string(config, section,
                             trim(SubSeq(line_ptr, 1, split - 1)).ptr,
                             trim(Drop(line_ptr, split)).ptr)

\* mutant: a comment line ends the skipping of key/value lines
RECURSIVE parse_lines_unskip(_, _, _, _, _)
parse_lines_unskip(stream, config, section, skip_entries, size) ==
  IF stream = <<>> THEN config
  ELSE
    LET got == fgets(stream, size)
        t == trim(got.line)
        line_ptr == t.ptr
        len == Len(line_ptr)
    IN  IF Len(t.buf) = size - 1
        THEN parse_lines_unskip(skip_line(got.rest), config, section, skip_entries, size)
        ELSE IF line_ptr = <<>>
        THEN parse_lines_unskip(got.rest, config, section, skip_entries, size)
        ELSE IF line_ptr[1] = "#"
        THEN parse_lines_unskip(got.rest, parse_comment(config, line_ptr, size),
                         section, FALSE, size)
        ELSE IF line_ptr[1] = "["
        THEN IF line_ptr[len] # "]"
             THEN parse_lines_unskip(got.rest, config, section, TRUE, size)
             ELSE parse_lines_unskip(got.rest, config, SubSeq(line_ptr, 2, len - 1),
                              FALSE, size)
        ELSE IF skip_entries
        THEN parse_lines_unskip(got.rest, config, section, skip_entries, size)
        ELSE parse_lines_unskip(got.rest, parse_entry(config, section, line_ptr),
                         section, skip_entries, size)

\* the loop of config_parse over the rest of the stream
RECURSIVE parse_lines(_, _, _, _, _)
parse_lines(stream, config, section, skip_entries, size) ==
  IF stream = <<>> THEN config
  ELSE
    LET got == fgets(stream, size)
        t == trim(got.line)
        line_ptr == t.ptr
        len == Len(line_ptr)
    IN  IF Len(t.buf) = size - 1
        THEN parse_lines(skip_line(got.rest), config, section, skip_entries, size)
        ELSE IF line_ptr = <<>>
        THEN parse_lines(got.rest, config, section, skip_entries, size)
        ELSE IF line_ptr[1] = "#"
        THEN parse_lines(got.rest, parse_comment(config, line_ptr, size),
                         section, skip_entries, size)
        ELSE IF line_ptr[1] = "["
        THEN IF line_ptr[len] # "]"
             THEN parse_lines(got.rest, config, section, TRUE, size)
             ELSE parse_lines(got.rest, config, SubSeq(line_ptr, 2, len - 1),
                              FALSE, size)
        ELSE IF skip_entries
        THEN parse_lines(got.rest, config, section, skip_entries, size)
        ELSE parse_lines(got.rest, parse_entry(config, section, line_ptr),
                         section, skip_entries, size)

CONFIG_DEFAULT_SECTION == <<"G", "l", "o", "b", "a", "l">>

config_parse_sized(stream, size) ==
  parse_lines(stream, config_new_empty, CONFIG_DEFAULT_SECTION, FALSE, size)

config_parse(stream) == config_parse_sized(stream, line_size)

(* ------------------------------- state --------------------------------- *)
VARIABLES
  config,   \* the Store the caller works on
  clone,    \* the Store config_new_clone returned last (empty before)
  file,     \* the text of the file at the path saved to and loaded from
  saved,    \* the Store the file was saved from, with how it had been built
  pure,     \* config was built from empty by config_set_* calls alone
  last,     \* the call made last: its name, arguments and return value
  budget,   \* number of config_set_* calls the caller has still to make
  hist      \* the config_set_string calls made, in order

storeVars == <<config, clone, file, saved, pure, last, budget, hist>>

\* one run of config_save, the file system under it and a reader of the file
VARIABLES
  pc,       \* the step config_save is at
  wi,       \* the next of the write calls (fprintf, fputc) to make
  fp,       \* the stream of the temporary file: its state, inode and buffer
  dir_fd,   \* the descriptor of the directory: "none", "open", "closed"
  fcloses,  \* number of fclose calls made on the stream
  dcloses,  \* number of close calls made on the directory descriptor
  ret,      \* what config_save returned: "none" (not yet), "true", "false"
  old,      \* the file at the target path when config_save was called
  steps,    \* the calls config_save has made, in order, each with its success
  kdir,     \* the directory as the kernel shows it: path -> inode, 0 for none
  kdata,    \* the content of each inode as the kernel shows it
  ddir,     \* the directory on stable storage
  ddata,    \* the content of each inode on stable storage
  crashed,  \* the machine went down; kernel and process state are lost
  rpc,      \* the reader: "idle", "open", "reading", "done"
  rino,     \* the inode the reader opened
  robs      \* what the reader has read so far

saveVars == <<pc, wi, fp, dir_fd, fcloses, dcloses, ret, old, steps>>
fsVars == <<kdir, kdata, ddir, ddata, crashed>>
readerVars == <<rpc, rino, robs>>

VARIABLES
  spc,      \* the step config_sections_sort_by_entry_key is at
  comp,     \* the comparator it was given
  node,     \* the section reached in the list of sections (0: the end)
  p_node,   \* p: the entry node the current pass stops before (0: the end)
  q_node,   \* q: the entry node the current pass is at
  changed,  \* the current pass has swapped two entries
  given     \* the Store as config_sections_sort_by_entry_key was given it

sortVars == <<spc, comp, node, p_node, q_node, changed, given>>

\* config_sections_sort_by_entry_key is not running
SortIdle ==
  /\ spc = "idle" /\ comp = "none" /\ node = 0 /\ p_node = 0 /\ q_node = 0
  /\ changed = FALSE /\ given = <<>>

vars == <<storeVars, saveVars, fsVars, readerVars, sortVars>>

\* the file at the target path
filename == "bt_config.conf"

\* mutant: the text is written to the target path itself
temp_filename_is_target == filename

\* the temporary file config_save writes: filename with ".new" appended
temp_filename == "bt_config.conf.new"

Paths == {filename, temp_filename}
Inodes == 1..3

NoFile == [exists |-> FALSE, text |-> <<>>]
FileOf(dir, data, path) ==
  IF dir[path] = 0 THEN NoFile ELSE [exists |-> TRUE, text |-> data[dir[path]]]

NullStream == [state |-> "null", ino |-> 0, buf |-> <<>>]

\* config_save is not running
SaveIdle ==
  /\ pc = "idle" /\ wi = 1 /\ fp = NullStream /\ dir_fd = "none"
  /\ fcloses = 0 /\ dcloses = 0 /\ ret = "none" /\ old = NoFile
  /\ steps = <<>>
  /\ kdir = [p \in Paths |-> 0] /\ ddir = [p \in Paths |-> 0]
  /\ kdata = [i \in Inodes |-> <<>>] /\ ddata = [i \in Inodes |-> <<>>]
  /\ crashed = FALSE
  /\ rpc = "idle" /\ rino = 0 /\ robs = NoFile

OtherVars == <<saveVars, fsVars, readerVars, sortVars>>

NoArg == <<>>

\* nothing has been saved yet
NotSaved == [valid |-> FALSE, store |-> <<>>, pure |-> FALSE]

Call(op, section, key, value, returned) ==
  [op |-> op, section |-> section, key |-> key, value |-> value,
   ret |-> returned]

NoCall == Call("none", NoArg, NoArg, NoArg, FALSE)

(* ------------------------------- inputs -------------------------------- *)
SectionNames == {<<"s">>, <<"#", "c">>}

Keys == {<<"k">>, <<"j">>}

Values == {<<"v">>, <<" ", "v">>, <<"v", NL, "w">>, <<>>}

\* the config_set_string calls made where removal, cloning and loading are
\* open as well: section, key, value
StoreCalls ==
  { <<(<<"s">>), (<<"k">>), (<<"v">>)>>,
    <<(<<"s">>), (<<"k">>), (<<"w", NL, "v">>)>>,
    <<(<<"s">>), (<<"j">>), (<<"v">>)>>,
    <<(<<"t">>), (<<"k">>), (<<NL>>)>>,
    <<(<<"#", "c">>), (<<"k">>), (<<"v">>)>> }

IntValues == {-7, 42}

\* the config_set_string calls a Store is built from before it is saved:
\* section, key, value
TripCalls ==
  { <<(<<"s">>), (<<"k">>), (<<"v">>)>>,
    <<(<<"s">>), (<<"j">>), (<<>>)>>,
    <<(<<"t">>), (<<"k">>), (<<"v", "=", "w">>)>>,
    <<(<<>>), (<<>>), (<<"v", " ", "w">>)>>,
    <<(<<"s">>), (<<"k">>), (<<" ", "v">>)>>,
    <<(<<"s">>), (<<"k">>), (<<"v", NL, "w">>)>>,
    <<(<<"#", "c">>), (<<"k">>), (<<"v">>)>>,
    <<(<<"s">>), (<<"[", "k">>), (<<"v">>)>>,
    <<(<<"s">>), (<<"k", "=">>), (<<"v">>)>>,
    <<(<<"t">>), (<<"k", " ">>), (<<"v">>)>>,
    <<(<<"s", NL>>), (<<"k">>), (<<"v">>)>> }

\* files found at the path before anything is saved there
Files ==
  { <<"#", "c", NL, "#", "c", NL, "[", "s", "]", NL, "k", "=", "v", NL>>,
    <<"k", " ", "=", NL, "[", "s", NL, "k", "=", "w", NL, "#", "d", NL,
      "[", "s", "]", NL, " ", "k", " ", "=", " ", "v", "=", "w", " ", NL,
      "j", NL>>,
    <<"[", "s", "]", NL, "[", "t", "]", NL, "k", "=", "v">> }

(* ------------------- calls on a Store, one after another --------------- *)
\* most config_set_* calls (the calls that make a Store grow) made on a Store
\* that is then saved and loaded
MaxSets == 3

\* most config_set_* calls made where removal, cloning and loading are open
MaxStoreSets == 2

StoreInit ==
  /\ SaveIdle
  /\ SortIdle
  /\ config = config_new_empty
  /\ clone = config_new_empty
  /\ saved = NotSaved
  /\ pure = TRUE
  /\ last = NoCall
  /\ hist = <<>>

SetString(section, key, value) ==
  /\ budget > 0
  /\ config' = config_set_string(config, section, key, value)
  /\ last' = Call("set_string", section, key, value, FALSE)
  /\ budget' = budget - 1
  /\ UNCHANGED <<clone, file, saved, pure, hist>>
  /\ UNCHANGED OtherVars

SetInt(section, key, value) ==
  /\ budget > 0
  /\ config' = config_set_int(config, section, key, value)
  /\ last' = Call("set_int", section, key, value, FALSE)
  /\ budget' = budget - 1
  /\ UNCHANGED <<clone, file, saved, pure, hist>>
  /\ UNCHANGED OtherVars

SetUint16(section, key, value) ==
  /\ budget > 0
  /\ config' = config_set_uint16(config, section, key, value)
  /\ last' = Call("set_uint16", section, key, value, FALSE)
  /\ budget' = budget - 1
  /\ UNCHANGED <<clone, file, saved, pure, hist>>
  /\ UNCHANGED OtherVars

SetUint64(section, key, value) ==
  /\ budget > 0
  /\ config' = config_set_uint64(config, section, key, value)
  /\ last' = Call("set_uint64", section, key, value, FALSE)
  /\ budget' = budget - 1
  /\ UNCHANGED <<clone, file, saved, pure, hist>>
  /\ UNCHANGED OtherVars

SetBool(section, key, value) ==
  /\ budget > 0
  /\ config' = config_set_bool(config, section, key, value)
  /\ last' = Call("set_bool", section, key, value, FALSE)
  /\ budget' = budget - 1
  /\ UNCHANGED <<clone, file, saved, pure, hist>>
  /\ UNCHANGED OtherVars

RemoveSection(section) ==
  /\ LET r == config_remove_section(config, section)
     IN  /\ config' = r.config
         /\ last' = Call("remove_section", section, NoArg, NoArg, r.ret)
  /\ pure' = FALSE
  /\ UNCHANGED <<clone, file, saved, hist, budget>>
  /\ UNCHANGED OtherVars

RemoveKey(section, key) ==
  /\ LET r == config_remove_key(config, section, key)
     IN  /\ config' = r.config
         /\ last' = Call("remove_key", section, key, NoArg, r.ret)
  /\ pure' = FALSE
  /\ UNCHANGED <<clone, file, saved, hist, budget>>
  /\ UNCHANGED OtherVars

Clone ==
  /\ clone' = config_new_clone(config)
  /\ last' = Call("clone", NoArg, NoArg, NoArg, TRUE)
  /\ UNCHANGED <<config, file, saved, pure, hist, budget>>
  /\ UNCHANGED OtherVars

\* config_save when every step of it succeeds
Save ==
  /\ file' = save_text(config)
  /\ saved' = [valid |-> TRUE, store |-> config, pure |-> pure]
  /\ last' = Call("save", NoArg, NoArg, NoArg, TRUE)
  /\ UNCHANGED <<config, clone, pure, hist, budget>>
  /\ UNCHANGED OtherVars

\* config_new of the path: the caller goes on with the Store loaded
Load ==
  /\ config' = config_parse(file)
  /\ pure' = FALSE
  /\ last' = Call("load", NoArg, NoArg, NoArg, TRUE)
  /\ UNCHANGED <<clone, file, saved, hist, budget>>
  /\ UNCHANGED OtherVars

InitStore ==
  /\ StoreInit
  /\ budget = MaxStoreSets
  /\ file \in Files

NextStore ==
  \/ \E c \in StoreCalls : SetString(c[1], c[2], c[3])
  \/ SetInt(<<"s">>, <<"k">>, -7)
  \/ SetBool(<<"t">>, <<"j">>, TRUE)
  \/ \E s \in SectionNames : RemoveSection(s)
  \/ \E s \in SectionNames, k \in Keys : RemoveKey(s, k)
  \/ Clone
  \/ Load

SpecStore == InitStore /\ [][NextStore]_vars

(* --------------- a Store built by config_set_*, saved, loaded ---------- *)
InitTrip ==
  /\ StoreInit
  /\ budget = MaxSets
  /\ file = <<>>

NextTrip ==
  \/ \E c \in TripCalls : SetString(c[1], c[2], c[3])
  \/ \E v \in IntValues : SetInt(<<"s">>, <<"k">>, v)
  \/ SetUint16(<<"s">>, <<"k">>, 65535)
  \/ SetUint64(<<"s">>, <<"k">>, 2147483647)
  \/ \E v \in BOOLEAN : SetBool(<<"s">>, <<"k">>, v)
  \/ Save
  \/ saved.valid /\ Load

SpecTrip == InitTrip /\ [][NextTrip]_vars

(* ------------------- config_set_string calls only ---------------------- *)
SetStringOnly(section, key, value) ==
  /\ Len(hist) < MaxOps
  /\ config' = config_set_string(config, section, key, value)
  /\ hist' = Append(hist, [section |-> section, key |-> key, value |-> value])
  /\ last' = Call("set_string", section, key, value, FALSE)
  /\ UNCHANGED <<clone, file, saved, pure, budget>>
  /\ UNCHANGED OtherVars

InitSet ==
  /\ StoreInit
  /\ budget = 0
  /\ file = <<>>

NextSet ==
  \E s \in SectionNames, k \in Keys, v \in Values : SetStringOnly(s, k, v)

SpecSet == InitSet /\ [][NextSet]_vars

(* ---------------- numeric getters on one stored text ------------------- *)
\* longest text stored as a value
MaxNumLen == 3

NumChars == {"0", "7", "9", "x", "a", "-", " "}

RECURSIVE TextsOfLen(_)
TextsOfLen(n) ==
  IF n = 0 THEN {<<>>}
  ELSE {Append(s, c) : s \in TextsOfLen(n - 1), c \in NumChars}

NumTexts == UNION {TextsOfLen(n) : n \in 0..MaxNumLen}

\* the defaults the caller supplies
IntDefault == 5
Uint64Default == U64(5)

\* the Store is empty, or holds one entry with any of the texts
InitGet ==
  /\ SaveIdle
  /\ SortIdle
  /\ clone = config_new_empty
  /\ saved = NotSaved
  /\ pure = TRUE
  /\ last = NoCall
  /\ hist = <<>>
  /\ budget = 0
  /\ file = <<>>
  /\ \/ config = config_new_empty
     \/ \E text \in NumTexts :
          config = config_set_string(config_new_empty, <<"s">>, <<"k">>, text)

GetInt(section, key, def_value) ==
  /\ last.op = "none"
  /\ last' = Call("get_int", section, key, def_value,
                  config_get_int(config, section, key, def_value))
  /\ UNCHANGED <<config, clone, file, saved, pure, hist, budget>>
  /\ UNCHANGED OtherVars

GetUint16(section, key, def_value) ==
  /\ last.op = "none"
  /\ last' = Call("get_uint16", section, key, def_value,
                  config_get_uint16(config, section, key, def_value))
  /\ UNCHANGED <<config, clone, file, saved, pure, hist, budget>>
  /\ UNCHANGED OtherVars

GetUint64(section, key, def_value) ==
  /\ last.op = "none"
  /\ last' = Call("get_uint64", section, key, def_value,
                  config_get_uint64(config, section, key, def_value))
  /\ UNCHANGED <<config, clone, file, saved, pure, hist, budget>>
  /\ UNCHANGED OtherVars

NextGet ==
  \/ GetInt(<<"s">>, <<"k">>, IntDefault)
  \/ GetUint16(<<"s">>, <<"k">>, IntDefault)
  \/ GetUint64(<<"s">>, <<"k">>, Uint64Default)

SpecGet == InitGet /\ [][NextGet]_vars

(* ------------------- config_save, step by step ------------------------ *)
\* characters the reader gets with its first read
ReadChunk == 4

\* the Stores saved
SaveStores ==
  { << [name |-> <<"#", "c">>, entries |-> <<>>],
       [name |-> <<"s">>,
        entries |-> <<[key |-> <<"k">>, value |-> <<"v">>]>>] >>,
    << [name |-> <<"s">>,
        entries |-> <<[key |-> <<"k">>, value |-> <<"v">>],
                      [key |-> <<"j">>, value |-> <<>>]>>] >> }

\* the file found at the target path, and a temporary file left behind
OldText == <<"[", "s", "]", NL, "k", " ", "=", " ", "w", NL>>
LeftoverText == <<"[", "s", "]", NL, "k">>

\* the inode fopen creates when the temporary file does not exist
FreshInode == 3

IsPrefix(a, b) == Len(a) <= Len(b) /\ a = SubSeq(b, 1, Len(a))

InitSave ==
  /\ SortIdle
  /\ config \in SaveStores
  /\ clone = config_new_empty /\ file = <<>> /\ saved = NotSaved
  /\ pure = FALSE /\ last = NoCall /\ budget = 0 /\ hist = <<>>
  /\ pc = "open_dir" /\ wi = 1 /\ fp = NullStream /\ dir_fd = "none"
  /\ fcloses = 0 /\ dcloses = 0 /\ ret = "none" /\ steps = <<>>
  /\ \E target_exists \in BOOLEAN, temp_exists \in BOOLEAN :
       /\ kdir = [p \in Paths |->
                    IF p = filename THEN (IF target_exists THEN 1 ELSE 0)
                    ELSE (IF temp_exists THEN 2 ELSE 0)]
       /\ kdata = [i \in Inodes |->
                     IF i = 1 /\ target_exists THEN OldText
                     ELSE IF i = 2 /\ temp_exists THEN LeftoverText
                     ELSE <<>>]
  /\ ddir = kdir /\ ddata = kdata
  /\ old = FileOf(kdir, kdata, filename)
  /\ crashed = FALSE
  /\ rpc = "idle" /\ rino = 0 /\ robs = NoFile

\* dir_fd = open(directoryname, O_RDONLY)
OpenDir(ok) ==
  /\ pc = "open_dir" /\ ~crashed
  /\ steps' = Append(steps, <<"open", ok>>)
  /\ IF ok THEN dir_fd' = "open" /\ pc' = "fopen"
     ELSE dir_fd' = dir_fd /\ pc' = "error"
  /\ UNCHANGED <<wi, fp, fcloses, dcloses, ret, old>>
  /\ UNCHANGED <<storeVars, sortVars, fsVars, readerVars>>

\* fp = fopen(temp_filename, "wt"): the file is created, or cut to no content
Fopen(ok) ==
  /\ pc = "fopen" /\ ~crashed
  /\ steps' = Append(steps, <<"fopen", ok>>)
  /\ IF ok
     THEN LET ino == IF kdir[temp_filename] # 0 THEN kdir[temp_filename]
                     ELSE FreshInode
          IN  /\ kdir' = [kdir EXCEPT ![temp_filename] = ino]
              /\ kdata' = [kdata EXCEPT ![ino] = <<>>]
              /\ fp' = [state |-> "open", ino |-> ino, buf |-> <<>>]
              /\ pc' = IF save_writes(config, 1) = <<>> THEN "fsync" ELSE "write"
     ELSE UNCHANGED <<kdir, kdata, fp>> /\ pc' = "error"
  /\ UNCHANGED <<wi, dir_fd, fcloses, dcloses, ret, old>>
  /\ UNCHANGED <<storeVars, sortVars, ddir, ddata, crashed, readerVars>>

\* one fprintf or fputc: the text goes to the buffer of the stream, which
\* stdio writes out to the file when it is full (flush)
Write(ok, flush) ==
  /\ pc = "write" /\ ~crashed
  /\ steps' = Append(steps, <<"write", ok>>)
  /\ IF ok
     THEN LET text == save_writes(config, 1)[wi]
          IN  /\ IF flush
                 THEN /\ kdata' = [kdata EXCEPT ![fp.ino] = @ \o fp.buf \o text]
                      /\ fp' = [fp EXCEPT !.buf = <<>>]
                 ELSE /\ kdata' = kdata
                      /\ fp' = [fp EXCEPT !.buf = @ \o text]
              /\ wi' = wi + 1
              /\ pc' = IF wi = Len(save_writes(config, 1)) THEN "fsync"
                       ELSE "write"
     ELSE UNCHANGED <<kdata, fp, wi>> /\ pc' = "error"
  /\ UNCHANGED <<dir_fd, fcloses, dcloses, ret, old>>
  /\ UNCHANGED <<storeVars, sortVars, kdir, ddir, ddata, crashed, readerVars>>

\* fsync(fileno(fp)): what the kernel holds of the file goes to stable
\* storage; a failure is logged and nothing else
Fsync(ok) ==
  /\ pc = "fsync" /\ ~crashed
  /\ steps' = Append(steps, <<"fsync", ok>>)
  /\ ddata' = IF ok THEN [ddata EXCEPT ![fp.ino] = kdata[fp.ino]] ELSE ddata
  /\ pc' = "fclose"
  /\ UNCHANGED <<wi, fp, dir_fd, fcloses, dcloses, ret, old>>
  /\ UNCHANGED <<storeVars, sortVars, kdir, kdata, ddir, crashed, readerVars>>

\* fclose(fp): the buffer is written out and the stream released; on
\* failure the stream is released all the same and fp keeps its value
Fclose(ok) ==
  /\ pc = "fclose" /\ ~crashed
  /\ steps' = Append(steps, <<"fclose", ok>>)
  /\ fcloses' = fcloses + 1
  /\ IF ok
     THEN /\ kdata' = [kdata EXCEPT ![fp.ino] = @ \o fp.buf]
          /\ fp' = NullStream
          /\ pc' = "chmod"
     ELSE /\ kdata' = kdata
          /\ fp' = [fp EXCEPT !.state = "closed", !.buf = <<>>]
          /\ pc' = "error"
  /\ UNCHANGED <<wi, dir_fd, dcloses, ret, old>>
  /\ UNCHANGED <<storeVars, sortVars, kdir, ddir, ddata, crashed, readerVars>>

\* chmod(temp_filename, ...)
Chmod(ok) ==
  /\ pc = "chmod" /\ ~crashed
  /\ steps' = Append(steps, <<"chmod", ok>>)
  /\ pc' = IF ok THEN "rename" ELSE "error"
  /\ UNCHANGED <<wi, fp, dir_fd, fcloses, dcloses, ret, old>>
  /\ UNCHANGED <<storeVars, sortVars, fsVars, readerVars>>

\* rename(temp_filename, filename): one step for whoever looks the path up
Rename(ok) ==
  /\ pc = "rename" /\ ~crashed
  /\ steps' = Append(steps, <<"rename", ok>>)
  /\ IF ok
     THEN /\ kdir' = IF temp_filename = filename THEN kdir
                     ELSE [kdir EXCEPT ![filename] = kdir[temp_filename],
                                       ![temp_filename] = 0]
          /\ pc' = "fsync_dir"
     ELSE kdir' = kdir /\ pc' = "error"
  /\ UNCHANGED <<wi, fp, dir_fd, fcloses, dcloses, ret, old>>
  /\ UNCHANGED <<storeVars, sortVars, kdata, ddir, ddata, crashed, readerVars>>

\* fsync(dir_fd): a failure is logged and nothing else
FsyncDir(ok) ==
  /\ pc = "fsync_dir" /\ ~crashed
  /\ steps' = Append(steps, <<"fsync_dir", ok>>)
  /\ ddir' = IF ok THEN kdir ELSE ddir
  /\ pc' = "close_dir"
  /\ UNCHANGED <<wi, fp, dir_fd, fcloses, dcloses, ret, old>>
  /\ UNCHANGED <<storeVars, sortVars, kdir, kdata, ddata, crashed, readerVars>>

\* close(dir_fd); when it fails the descriptor may be released all the same
\* (released) and dir_fd keeps its value
CloseDir(ok, released) ==
  /\ pc = "close_dir" /\ ~crashed
  /\ steps' = Append(steps, <<"close", ok>>)
  /\ dcloses' = dcloses + 1
  /\ IF ok
     THEN released /\ dir_fd' = "closed" /\ pc' = "sync"
     ELSE /\ dir_fd' = IF released THEN "released" ELSE "open"
          /\ pc' = "error"
  /\ UNCHANGED <<wi, fp, fcloses, ret, old>>
  /\ UNCHANGED <<storeVars, sortVars, fsVars, readerVars>>

\* sync(), then return true
Sync ==
  /\ pc = "sync" /\ ~crashed
  /\ steps' = Append(steps, <<"sync", TRUE>>)
  /\ ddir' = kdir /\ ddata' = kdata
  /\ ret' = "true" /\ pc' = "done"
  /\ UNCHANGED <<wi, fp, dir_fd, fcloses, dcloses, old>>
  /\ UNCHANGED <<storeVars, sortVars, kdir, kdata, crashed, readerVars>>

\* mutant: the temporary file is left where it is
unlink_nothing(dir, path) == dir

\* unlink(path): the name is gone from the directory
unlink(dir, path) == [dir EXCEPT ![path] = 0]

\* error: unlink(temp_filename); if (fp) fclose(fp); if (dir_fd != -1)
\* close(dir_fd); return false.  fclose of a stream already released is
\* undefined: config_save returns all the same, or the process is ended
ErrorExit(abort) ==
  /\ pc = "error" /\ ~crashed
  /\ abort => fp.state = "closed"
  /\ kdir' = unlink(kdir, temp_filename)
  /\ kdata' = IF fp.state = "open"
              THEN [kdata EXCEPT ![fp.ino] = @ \o fp.buf] ELSE kdata
  /\ fcloses' = IF fp.state # "null" THEN fcloses + 1 ELSE fcloses
  /\ fp' = IF fp.state = "null" THEN fp
           ELSE [fp EXCEPT !.state = "closed", !.buf = <<>>]
  /\ dcloses' = IF dir_fd \in {"open", "released"} THEN dcloses + 1
                ELSE dcloses
  /\ dir_fd' = IF dir_fd = "none" THEN "none" ELSE "closed"
  /\ steps' = steps \o <<<<"unlink", TRUE>>>>
               \o (IF fp.state # "null" THEN <<<<"fclose", TRUE>>>> ELSE <<>>)
               \o (IF dir_fd \in {"open", "released"}
                   THEN <<<<"close", TRUE>>>> ELSE <<>>)
  /\ IF abort THEN pc' = "aborted" /\ ret' = ret
     ELSE pc' = "done" /\ ret' = "false"
  /\ UNCHANGED <<wi, old>>
  /\ UNCHANGED <<storeVars, sortVars, ddir, ddata, crashed, readerVars>>

(* ------------------------- the file system ----------------------------- *)
\* the kernel writes part of what it holds of a file to stable storage
WritebackData(i, n) ==
  /\ ~crashed
  /\ SubSeq(kdata[i], 1, n) # ddata[i]
  /\ IsPrefix(ddata[i], kdata[i]) => n > Len(ddata[i])
  /\ ddata' = [ddata EXCEPT ![i] = SubSeq(kdata[i], 1, n)]
  /\ UNCHANGED <<storeVars, sortVars, saveVars, kdir, kdata, ddir, crashed, readerVars>>

\* the kernel writes the directory to stable storage
WritebackDir ==
  /\ ~crashed
  /\ ddir # kdir
  /\ ddir' = kdir
  /\ UNCHANGED <<storeVars, sortVars, saveVars, kdir, kdata, ddata, crashed, readerVars>>

\* crash or power loss: what is left is what stable storage holds
Crash ==
  /\ ~crashed
  /\ pc \notin {"done", "aborted"}
  /\ crashed' = TRUE
  /\ kdir' = ddir /\ kdata' = ddata
  /\ pc' = "crashed" /\ fp' = NullStream /\ dir_fd' = "none"
  /\ UNCHANGED <<wi, fcloses, dcloses, ret, old, steps>>
  /\ UNCHANGED <<storeVars, sortVars, ddir, ddata, readerVars>>

(* ------------------------------ a reader ------------------------------- *)
\* open of the target path
ReaderOpen ==
  /\ rpc = "idle"
  /\ rino' = kdir[filename]
  /\ rpc' = IF kdir[filename] = 0 THEN "done" ELSE "open"
  /\ robs' = IF kdir[filename] = 0 THEN NoFile
             ELSE [exists |-> TRUE, text |-> <<>>]
  /\ UNCHANGED <<storeVars, sortVars, saveVars, fsVars>>

\* the first read: ReadChunk characters of the file opened
ReaderRead ==
  /\ rpc = "open"
  /\ robs' = [robs EXCEPT !.text =
                SubSeq(kdata[rino], 1, Min(ReadChunk, Len(kdata[rino])))]
  /\ rpc' = "reading"
  /\ UNCHANGED <<storeVars, sortVars, saveVars, fsVars, rino>>

\* the second read: all that follows what was read, up to the end of file
ReaderReadRest ==
  /\ rpc = "reading"
  /\ robs' = [robs EXCEPT !.text =
                @ \o SubSeq(kdata[rino], Len(@) + 1, Len(kdata[rino]))]
  /\ rpc' = "done"
  /\ UNCHANGED <<storeVars, sortVars, saveVars, fsVars, rino>>

SaveSteps ==
  \/ \E ok \in BOOLEAN : OpenDir(ok)
  \/ \E ok \in BOOLEAN : Fopen(ok)
  \/ \E ok \in BOOLEAN, flush \in BOOLEAN : Write(ok, flush)
  \/ \E ok \in BOOLEAN : Fsync(ok)
  \/ \E ok \in BOOLEAN : Fclose(ok)
  \/ \E ok \in BOOLEAN : Chmod(ok)
  \/ \E ok \in BOOLEAN : Rename(ok)
  \/ \E ok \in BOOLEAN : FsyncDir(ok)
  \/ \E ok \in BOOLEAN, released \in BOOLEAN : CloseDir(ok, released)
  \/ Sync
  \/ \E abort \in BOOLEAN : ErrorExit(abort)

\* config_save over a file system that writes back when it likes and that
\* can go down at any moment
NextSave ==
  \/ SaveSteps
  \/ \E i \in Inodes : \E n \in 0..Len(kdata[i]) : WritebackData(i, n)
  \/ WritebackDir
  \/ Crash

SpecSave == InitSave /\ [][NextSave]_vars

\* config_save with a reader of the target path beside it
NextRead ==
  \/ SaveSteps
  \/ ReaderOpen
  \/ ReaderRead
  \/ ReaderReadRest

SpecRead == InitSave /\ [][NextRead]_vars

(* ------------------------ vocabulary of the claims --------------------- *)
\* no two sections of the Store have the same name
UniqueNames(store) ==
  \A i, j \in 1..Len(store) : i # j => store[i].name # store[j].name

\* the positions <<section, entry>> of the entries of a Store
Positions(store) ==
  UNION { {<<i, j>> : j \in 1..Len(store[i].entries)} : i \in 1..Len(store) }

HasNewline(str) == \E i \in 1..Len(str) : str[i] = NL

\* the longest prefix of str that holds no newline
TextBeforeNewline(str) ==
  LET n == CHOOSE m \in 0..Len(str) :
             /\ \A i \in 1..m : str[i] # NL
             /\ m = Len(str) \/ str[m + 1] = NL
  IN  [i \in 1..n |-> str[i]]

NoNewlineValues(store) ==
  \A p \in Positions(store) : ~HasNewline(store[p[1]].entries[p[2]].value)

\* a text the parser gives back as it is: no whitespace at either end
Trimmed(str) == str = <<>> \/ (~isspace(str[1]) /\ ~isspace(str[Len(str)]))

\* a Store whose saved text the parser reads back as the same Store
Clean(store) ==
  /\ \A i \in 1..Len(store) :
       /\ ~is_comment(store[i].name)
       /\ ~HasNewline(store[i].name)
       /\ Len(store[i].name) + 3 <= line_size - 1
  /\ \A p \in Positions(store) :
       LET e == store[p[1]].entries[p[2]]
       IN  /\ Trimmed(e.key)
           /\ Trimmed(e.value)
           /\ ~HasNewline(e.key)
           /\ \A i \in 1..Len(e.key) : e.key[i] # "="
           /\ e.key = <<>> \/ e.key[1] \notin {"#", "["}
           /\ Len(e.key) + Len(e.value) + 4 <= line_size - 1

(* -------------------------------- C1 ----------------------------------- *)
\* the file config_save is to leave at the target path
NewFile == [exists |-> TRUE, text |-> save_text(config)]

\* C1: after a crash or power loss at any point of config_save, the file at
\* the target path on stable storage is the complete previous file or the
\* complete text of the Store, never a part of it.
C1_CrashLeavesOldOrNew ==
  crashed => FileOf(ddir, ddata, filename) \in {old, NewFile}

(* -------------------------------- C2 ----------------------------------- *)
\* C2: when config_save returns false, whichever step failed, the file at
\* the target path is what it was before the call.
C2_FailureLeavesTarget ==
  (pc = "done" /\ ret = "false") => FileOf(kdir, kdata, filename) = old

(* -------------------------------- C3 ----------------------------------- *)
\* C3: a reader that opens and reads the target path while config_save runs
\* gets the complete old file or the complete new file, never a mixture or
\* a part.
C3_ReaderSeesOldOrNew == rpc = "done" => robs \in {old, NewFile}

\* the reader opened the old file, read part of it, the new file was
\* renamed onto the path, and the reader read the rest
C3_Witness ==
  /\ rpc = "done"
  /\ old.exists /\ robs = old
  /\ kdir[filename] # rino
  /\ FileOf(kdir, kdata, filename) = NewFile

(* -------------------------------- C4 ----------------------------------- *)
\* C4 as stated: a Store built by config_set_* calls alone, saved and then
\* loaded from the same path, comes back with the same sections, entries and
\* values in the same order.
C4_RoundTripAnyStore ==
  (last.op = "load" /\ saved.valid /\ saved.pure) => config = saved.store

\* C4 amended: the Store comes back the same when, in addition, no section
\* name starts with '#' or holds a newline, no key holds '=' or a newline,
\* starts with '#' or '[' or has whitespace at either end, no value has
\* whitespace at either end, and every line written fits the line buffer.
C4_RoundTripCleanStore ==
  (last.op = "load" /\ saved.valid /\ saved.pure /\ Clean(saved.store))
    => config = saved.store

\* a clean Store of several sections and entries, one value empty and one
\* holding '=', has been saved and loaded
C4_Witness ==
  /\ last.op = "load"
  /\ saved.valid /\ saved.pure /\ Clean(saved.store)
  /\ Len(saved.store) >= 2
  /\ \E p \in Positions(saved.store) : p[2] = 2
  /\ file = save_text(saved.store)

(* -------------------------------- C5 ----------------------------------- *)
\* the calls of hist made for a section, for a (section, key) pair
CallsOf(s) == {h \in 1..Len(hist) : hist[h].section = s}
CallsOfKey(s, k) == {h \in CallsOf(s) : hist[h].key = k}
First(calls) == CHOOSE h \in calls : \A g \in calls : h <= g
Latest(calls) == CHOOSE h \in calls : \A g \in calls : g <= h

\* C5: after a sequence of config_set_string calls every (section, key) set
\* has exactly one entry, holding the value set last for it (its text before
\* the first newline); nothing else is in the Store; and sections, and
\* entries within a section, stand in the order of their first creation.
C5_SetStringUnique ==
  /\ \A h \in 1..Len(hist) :
       LET s == hist[h].section
           k == hist[h].key
           at == {p \in Positions(config) :
                    /\ config[p[1]].name = s
                    /\ config[p[1]].entries[p[2]].key = k}
       IN  /\ Cardinality(at) = 1
           /\ \A p \in at :
                config[p[1]].entries[p[2]].value =
                  TextBeforeNewline(hist[Latest(CallsOfKey(s, k))].value)
  /\ \A i \in 1..Len(config) : CallsOf(config[i].name) # {}
  /\ \A p \in Positions(config) :
       CallsOfKey(config[p[1]].name, config[p[1]].entries[p[2]].key) # {}
  /\ \A i, j \in 1..Len(config) :
       i < j => First(CallsOf(config[i].name)) < First(CallsOf(config[j].name))
  /\ \A p, q \in Positions(config) :
       (p[1] = q[1] /\ p[2] < q[2]) =>
         First(CallsOfKey(config[p[1]].name, config[p[1]].entries[p[2]].key))
           < First(CallsOfKey(config[q[1]].name, config[q[1]].entries[q[2]].key))

\* a pair was set, then another key or section, then the pair again with
\* another value
C5_Witness ==
  /\ Len(hist) = 3
  /\ hist[1].section = hist[3].section /\ hist[1].key = hist[3].key
  /\ hist[1].value # hist[3].value
  /\ hist[2].key # hist[1].key
  /\ hist[2].section = hist[1].section
  /\ Len(config) = 1 /\ Len(config[1].entries) = 2

(* -------------------------------- C6 ----------------------------------- *)
\* C6: whatever the calls made (load, set, remove, clone), no two sections
\* of a Store have the same name, comment pseudo-sections included.
C6_UniqueSectionNames == UniqueNames(config) /\ UniqueNames(clone)

\* a file repeating a comment line and holding a section has been loaded,
\* and the comment's name was then used in a config_set_string call
C6_Witness ==
  /\ last.op = "set_string"
  /\ is_comment(last.section)
  /\ ~pure
  /\ Len(config) = 2
  /\ config[1].name = last.section
  /\ config[2].entries # <<>>

(* -------------------------------- C7 ----------------------------------- *)
\* C7: no value of a Store holds a newline, whether set by a call or read by
\* the parser; config_set_string of a value with a newline stores the text
\* before the first newline and config_get_string returns that text.
C7_NoNewlineInValues ==
  /\ NoNewlineValues(config)
  /\ NoNewlineValues(clone)
  /\ last.op = "set_string" =>
       config_get_string(config, last.section, last.key, <<"d", "e", "f">>)
         = TextBeforeNewline(last.value)

\* a value holding a newline after other text has been set
C7_Witness ==
  /\ last.op = "set_string"
  /\ HasNewline(last.value)
  /\ TextBeforeNewline(last.value) # <<>>

(* -------------------------------- C8 ----------------------------------- *)
\* C8: the Store config_new_clone returns holds every section of the source,
\* comment pseudo-sections and sections without entries included, and every
\* entry, in the same order with equal names, keys and values.
C8_CloneEqualsSource == last.op = "clone" => clone = config

(* -------------------------------- C9 ----------------------------------- *)
AllDigits(str, base) == \A i \in 1..Len(str) : DigitValue(str[i]) < base

\* the whole of str is an integer literal: optional whitespace, optional
\* sign, then decimal digits, "0" and octal digits, or "0x" and hex digits
ValidLiteral(str) ==
  \E w \in 0..Len(str), g \in {0, 1} :
    /\ w + g < Len(str)
    /\ \A i \in 1..w : isspace(str[i])
    /\ g = 1 => str[w + 1] \in {"-", "+"}
    /\ LET body == SubSeq(str, w + g + 1, Len(str))
       IN  \/ body[1] # "0" /\ AllDigits(body, 10)
           \/ body[1] = "0" /\ AllDigits(body, 8)
           \/ /\ Len(body) >= 3
              /\ body[1] = "0" /\ body[2] \in {"x", "X"}
              /\ AllDigits(SubSeq(body, 3, Len(body)), 16)

IsNumericGet == last.op \in {"get_int", "get_uint16", "get_uint64"}

\* C9: config_get_int, config_get_uint16 and config_get_uint64 return the
\* caller's default when the entry is absent or its text is not, as a whole,
\* an integer literal (non-numeric, empty, or a number with text after it).
C9_DefaultUnlessLiteral ==
  IsNumericGet =>
    LET absent == entry_find(config, last.section, last.key) = 0
    IN  (absent \/ ~ValidLiteral(entry_of(config, last.section, last.key).value))
          => last.ret = last.value

(* -------------------------------- C10 ---------------------------------- *)
Without(list, Gone(_)) == SelectSeq(list, LAMBDA x : ~Gone(x))

\* what a step that is a removal does
RemoveEffect ==
  /\ last'.op = "remove_section" =>
       LET IsIt(sec) == sec.name = last'.section
       IN  /\ last'.ret = (\E i \in 1..Len(config) : IsIt(config[i]))
           /\ config' = Without(config, IsIt)
  /\ last'.op = "remove_key" =>
       LET IsIt(e) == e.key = last'.key
           In(sec) == sec.name = last'.section
       IN  /\ last'.ret = (\E i \in 1..Len(config) :
                             /\ In(config[i])
                             /\ \E j \in 1..Len(config[i].entries) :
                                  IsIt(config[i].entries[j]))
           /\ config' = [i \in 1..Len(config) |->
                           IF In(config[i])
                           THEN [config[i] EXCEPT !.entries = Without(@, IsIt)]
                           ELSE config[i]]

\* C10: config_remove_section and config_remove_key return true exactly when
\* the section (the key in the section) exists; then that section with its
\* entries (that entry) alone is gone, otherwise the Store is unchanged; all
\* other sections and entries keep values and order.
C10_RemoveFrame == [][RemoveEffect]_vars

\* a key was removed from a section that keeps another entry, with another
\* section in the Store
C10_Witness ==
  /\ last.op = "remove_key" /\ last.ret
  /\ Len(config) >= 2
  /\ \E i \in 1..Len(config) :
       config[i].name = last.section /\ Len(config[i].entries) >= 1


(* ---------------- what config_save leaves and how it runs --------------- *)
\* config_save has returned false
SaveFailed == pc = "done" /\ ret = "false"

Made(call, ok) == \E i \in 1..Len(steps) : steps[i] = <<call, ok>>

\* C14: the steps of config_save happen in this order: everything is
\* written to the temporary file, its complete content is forced to stable
\* storage, it is closed, its permissions are set, it is renamed, the
\* directory is fsynced, sync is issued; so once the rename is done the
\* file now at the target path is complete on stable storage
C14_RenameAfterDurable ==
  Made("rename", TRUE) =>
    /\ kdir[filename] # 0
    /\ ddata[kdir[filename]] = save_text(config)

\* C15: when fsync of the temporary file fails config_save aborts, with no
\* rename and false returned; a failure of the fsync of the directory alone
\* is let pass, and config_save then returns true with the rename done
C15_FsyncFailureAborts ==
  /\ Made("fsync", FALSE) => ~Made("rename", TRUE) /\ ret # "true"
  /\ (pc = "done" /\ Made("fsync_dir", FALSE) /\ Made("close", TRUE)
        /\ ~Made("fsync", FALSE))
       => ret = "true" /\ Made("rename", TRUE)

\* C16: on every way out of config_save each handle it opened, the stream
\* of the temporary file and the descriptor of the directory, has been
\* closed exactly once, also when fclose or close itself reported failure
C16_ClosedOnce ==
  pc \in {"done", "aborted"} =>
    /\ fcloses = (IF Made("fopen", TRUE) THEN 1 ELSE 0)
    /\ dcloses = (IF Made("open", TRUE) THEN 1 ELSE 0)

(* ----------------------------- files loaded ---------------------------- *)
\* number of lines of a file
MaxLines == 5

\* the lines the files are made of: a comment, a header, a header whose
\* name starts with '#', a header without its closing bracket, two
\* key/value lines
FileLines ==
  { <<"#", "c">>, <<"[", "s", "]">>, <<"[", "#", "c", "]">>, <<"[", "s">>,
    <<"k", "=", "v">>, <<"j", "=", " ", "w">> }

\* the text of a file of these lines, each ended by a newline
RECURSIVE TextOf(_)
TextOf(lines) ==
  IF lines = <<>> THEN <<>>
  ELSE Head(lines) \o <<NL>> \o TextOf(Tail(lines))

ParseFiles ==
  { TextOf(lines) : lines \in UNION { [1..n -> FileLines] : n \in 0..MaxLines } }

InitParse ==
  /\ StoreInit
  /\ file \in ParseFiles
  /\ budget = 0

\* the file is loaded, the Store loaded is saved, the file saved is loaded
NextParse ==
  \/ last.op # "load" /\ Load
  \/ last.op = "load" /\ ~saved.valid /\ Save

SpecParse == InitParse /\ [][NextParse]_vars

(* ------------------------- the lines of a file ------------------------- *)
\* the lines of a text, without their newlines
RECURSIVE LinesOf(_)
LinesOf(text) ==
  IF text = <<>> THEN <<>>
  ELSE LET nl == strchr(text, NL)
       IN  IF nl = 0 THEN <<text>>
           ELSE <<SubSeq(text, 1, nl - 1)>> \o LinesOf(Drop(text, nl))

\* str without the whitespace at its two ends
Strip(str) ==
  LET inner == {i \in 1..Len(str) : ~isspace(str[i])}
  IN  IF inner = {} THEN <<>>
      ELSE SubSeq(str, CHOOSE a \in inner : \A i \in inner : a <= i,
                       CHOOSE b \in inner : \A i \in inner : i <= b)

\* the lines of a text, each without the whitespace at its ends
StrippedLines(text) ==
  LET lines == LinesOf(text)
  IN  [i \in 1..Len(lines) |-> Strip(lines[i])]

IsCommentLine(l) == l # <<>> /\ l[1] = "#"
IsBracketLine(l) == l # <<>> /\ l[1] = "["
IsHeaderLine(l) == IsBracketLine(l) /\ l[Len(l)] = "]"
HeaderName(l) == SubSeq(l, 2, Len(l) - 1)
IsEntryLine(l) ==
  /\ l # <<>> /\ l[1] \notin {"#", "["}
  /\ \E i \in 1..Len(l) : l[i] = "="
KeyOf(l) == Strip(SubSeq(l, 1, strchr(l, "=") - 1))
ValueOf(l) == Strip(Drop(l, strchr(l, "=")))

\* the last line before line i that starts with '[', 0 when there is none
Governing(ls, i) ==
  LET before == {j \in 1..(i - 1) : IsBracketLine(ls[j])}
  IN  IF before = {} THEN 0
      ELSE CHOOSE j \in before : \A k \in before : k <= j

\* line i is a key/value line under a well-formed header, or under none
Stored(ls, i) ==
  /\ IsEntryLine(ls[i])
  /\ Governing(ls, i) = 0 \/ IsHeaderLine(ls[Governing(ls, i)])

\* line i is a key/value line that follows a header without its ']' with
\* no well-formed header in between
Skipped(ls, i) ==
  /\ IsEntryLine(ls[i])
  /\ Governing(ls, i) # 0 /\ ~IsHeaderLine(ls[Governing(ls, i)])

\* the section a stored key/value line belongs to
SectionAt(ls, i) ==
  IF Governing(ls, i) = 0 THEN CONFIG_DEFAULT_SECTION
  ELSE HeaderName(ls[Governing(ls, i)])

\* the key/value lines stored under section x with key k
StoredLines(ls, x, k) ==
  {i \in 1..Len(ls) : Stored(ls, i) /\ SectionAt(ls, i) = x /\ KeyOf(ls[i]) = k}

Least(S) == CHOOSE a \in S : \A i \in S : a <= i
Greatest(S) == CHOOSE b \in S : \A i \in S : i <= b

(* -------------------------------- C12 ---------------------------------- *)
\* the lines that name section x: comment lines with that text, well-formed
\* headers with that name; for a section without header, the key/value
\* lines stored under it
AppearLines(ls, x) ==
  LET named == {i \in 1..Len(ls) :
                  \/ IsCommentLine(ls[i]) /\ ls[i] = x
                  \/ IsHeaderLine(ls[i]) /\ HeaderName(ls[i]) = x}
  IN  IF named # {} THEN named
      ELSE {i \in 1..Len(ls) : Stored(ls, i) /\ SectionAt(ls, i) = x}

\* the lines that put something under section x into the Store: comment
\* lines with that text, key/value lines stored under that name
CreationLines(ls, x) ==
  {i \in 1..Len(ls) :
     \/ IsCommentLine(ls[i]) /\ ls[i] = x
     \/ Stored(ls, i) /\ SectionAt(ls, i) = x}

\* the entries of every section are in the order in which their keys first
\* appear among the lines stored under the section
EntriesInFileOrder(ls) ==
  \A i \in 1..Len(config) :
    \A p, q \in 1..Len(config[i].entries) :
      p < q =>
        Least(StoredLines(ls, config[i].name, config[i].entries[p].key))
          < Least(StoredLines(ls, config[i].name, config[i].entries[q].key))

\* C12 as stated: after loading a file the sections are in the order in
\* which they (headers and comment lines) first appear in the file, and
\* the entries of each section in the order in which their keys first appear
C12_OrderOfAppearance ==
  last.op = "load" =>
    LET ls == StrippedLines(file)
    IN  /\ \A i, j \in 1..Len(config) :
             i < j => Least(AppearLines(ls, config[i].name))
                        < Least(AppearLines(ls, config[j].name))
        /\ EntriesInFileOrder(ls)

\* C12, amended: after loading a file the Store holds one section for each
\* comment text and each name under which a key/value line is stored, in
\* the order of the lines that first put them there: the first comment line
\* with that text, the first key/value line stored under that name, not
\* its header; the entries of each section are in the order in which their
\* keys first appear
C12_OrderOfCreation ==
  last.op = "load" =>
    LET ls == StrippedLines(file)
    IN  /\ \A i \in 1..Len(ls) :
             /\ IsCommentLine(ls[i]) => config_has_section(config, ls[i])
             /\ Stored(ls, i) => config_has_section(config, SectionAt(ls, i))
        /\ \A i \in 1..Len(config) : CreationLines(ls, config[i].name) # {}
        /\ \A i, j \in 1..Len(config) :
             i < j => Least(CreationLines(ls, config[i].name))
                        < Least(CreationLines(ls, config[j].name))
        /\ EntriesInFileOrder(ls)

\* a file was loaded in which the header of the second section of the
\* Store comes before the header of the first, and a section took two keys
C12_Witness ==
  /\ last.op = "load" /\ ~saved.valid
  /\ Len(config) = 2
  /\ LET ls == StrippedLines(file)
     IN  /\ \E i, j \in 1..Len(ls) :
              /\ i < j
              /\ IsHeaderLine(ls[i]) /\ HeaderName(ls[i]) = config[2].name
              /\ IsHeaderLine(ls[j]) /\ HeaderName(ls[j]) = config[1].name
  /\ \E i \in 1..2 : Len(config[i].entries) = 2

(* -------------------------------- C13 ---------------------------------- *)
\* the entries <<section, key, value>> of a Store
EntriesOf(store) ==
  { <<store[p[1]].name, store[p[1]].entries[p[2]].key,
      store[p[1]].entries[p[2]].value>> : p \in Positions(store) }

\* the entries the stored key/value lines give: for each section and key
\* the value of the last line stored under them
EntriesOfLines(ls) ==
  { <<SectionAt(ls, i), KeyOf(ls[i]), ValueOf(ls[i])>> :
      i \in {j \in 1..Len(ls) :
               /\ Stored(ls, j)
               /\ j = Greatest(StoredLines(ls, SectionAt(ls, j), KeyOf(ls[j])))} }

\* C13: after a line that starts with '[' and does not end with ']' every
\* key/value line is dropped, adding no entry to any section, until the
\* next well-formed header, comment lines in between not ending the
\* skipping; from that header on key/value lines are stored under its
\* name.  So the entries of the Store loaded are exactly those of the
\* key/value lines whose last line starting with '[' is a well-formed
\* header (or that have no such line before them)
C13_SkipUntilHeader ==
  last.op = "load" => EntriesOf(config) = EntriesOfLines(StrippedLines(file))

\* a file was loaded in which a header without ']' is followed by a comment
\* line, a key/value line that was dropped, a well-formed header and a
\* key/value line that was stored
C13_Witness ==
  /\ last.op = "load" /\ ~saved.valid
  /\ LET ls == StrippedLines(file)
     IN  /\ Len(ls) = 5
         /\ IsBracketLine(ls[1]) /\ ~IsHeaderLine(ls[1])
         /\ IsCommentLine(ls[2])
         /\ Skipped(ls, 3)
         /\ IsHeaderLine(ls[4])
         /\ Stored(ls, 5)
         /\ KeyOf(ls[3]) # KeyOf(ls[5])
         /\ EntriesOf(config)
              = {<<HeaderName(ls[4]), KeyOf(ls[5]), ValueOf(ls[5])>>}
         /\ config_has_section(config, ls[2])

(* -------------------------------- C17 ---------------------------------- *)
\* "key = value\n" for each entry, in order
RECURSIVE EntryLines(_)
EntryLines(entries) ==
  IF entries = <<>> THEN <<>>
  ELSE Head(entries).key \o <<" ", "=", " ">> \o Head(entries).value \o <<NL>>
       \o EntryLines(Tail(entries))

\* the text of one section: the comment text as it is or "[name]\n", then
\* its entries
SectionText(sec) ==
  (IF sec.name # <<>> /\ sec.name[1] = "#" THEN sec.name
   ELSE <<"[">> \o sec.name \o <<"]", NL>>)
  \o EntryLines(sec.entries)

EndsLine(text) == text = <<>> \/ text[Len(text)] = NL

\* what stands between a section text and the next: one newline; when a
\* blank line is asked for, whatever makes one empty line after the text
Separator(text, blank) ==
  IF blank /\ ~EndsLine(text) THEN <<NL, NL>> ELSE <<NL>>

\* the section texts from section i on with a separator between every two
RECURSIVE JoinSections(_, _, _)
JoinSections(store, i, blank) ==
  IF i > Len(store) THEN <<>>
  ELSE SectionText(store[i])
       \o (IF i < Len(store) THEN Separator(SectionText(store[i]), blank)
           ELSE <<>>)
       \o JoinSections(store, i + 1, blank)

\* C17 as stated: the text written is, for each section in order, the
\* comment text verbatim or "[name]\n", then "key = value\n" for each
\* entry in order, with exactly one blank line between every two sections
\* of any kind and none after the last
C17_BlankLineBetweenSections ==
  last.op = "save" => file = JoinSections(config, 1, TRUE)

\* C17, amended: the text written is, for each section in order, the comment
\* text verbatim or "[name]\n", then "key = value\n" for each entry in
\* order, with exactly one newline character between every two sections
\* (a blank line after a section whose text ends a line, no more than the
\* end of its line after a comment without entries) and nothing after the
\* last
C17_NewlineBetweenSections ==
  last.op = "save" => file = JoinSections(config, 1, FALSE)

\* a Store was saved in which a named section is followed by a comment
\* without entries and this by a named section
C17_Witness ==
  /\ last.op = "save"
  /\ Len(config) = 3
  /\ ~is_comment(config[1].name) /\ config[1].entries # <<>>
  /\ is_comment(config[2].name) /\ config[2].entries = <<>>
  /\ ~is_comment(config[3].name) /\ config[3].entries # <<>>

(* -------------------------------- C20 ---------------------------------- *)
\* the comment pseudo-sections of a Store, each with its position
CommentsAt(store) ==
  { <<i, store[i].name>> : i \in {j \in 1..Len(store) : is_comment(store[j].name)} }

\* C20: after parsing any input every section whose name starts with '#'
\* owns no entries, and saving the Store parsed and loading the file saved
\* gives the same comment pseudo-sections, same text, same positions
C20_CommentsOwnNothing ==
  last.op = "load" =>
    /\ \A i \in 1..Len(config) :
         is_comment(config[i].name) => config[i].entries = <<>>
    /\ saved.valid => CommentsAt(config) = CommentsAt(saved.store)

(* ------------------------ lines and the line buffer -------------------- *)
\* the size of the line buffer in the runs below, in place of 1024, so that
\* short files hold lines that fill it
SmallLineSize == 4

\* number of characters of a file
MaxChars == 5

FileChars == {"k", "=", " ", "#", NL}

LineFiles == UNION { [1..n -> FileChars] : n \in 0..MaxChars }

\* config_new of the path, the line buffer of config_parse being of the
\* size given
LoadSized(size) ==
  /\ config' = config_parse_sized(file, size)
  /\ pure' = FALSE
  /\ last' = Call("load", NoArg, NoArg, NoArg, TRUE)
  /\ UNCHANGED <<clone, file, saved, hist, budget>>
  /\ UNCHANGED OtherVars

InitLines ==
  /\ StoreInit
  /\ file \in LineFiles
  /\ budget = 0

NextLines == LoadSized(SmallLineSize)

SpecLines == InitLines /\ [][NextLines]_vars

(* -------------------------------- C18 ---------------------------------- *)
\* the text with every line of more than max characters taken out
RECURSIVE WithoutLongLines(_, _)
WithoutLongLines(text, max) ==
  IF text = <<>> THEN <<>>
  ELSE LET nl == strchr(text, NL)
           end == IF nl = 0 THEN Len(text) ELSE nl
           len == IF nl = 0 THEN Len(text) ELSE nl - 1
       IN  (IF len > max THEN <<>> ELSE SubSeq(text, 1, end))
           \o WithoutLongLines(Drop(text, end), max)

HasLongLine(text, max) == WithoutLongLines(text, max) # text

\* C18: every line longer than the line buffer holds (1023 characters) is
\* skipped entirely, whatever characters it holds: the Store loaded is the
\* one the file loads as without those lines
C18_LongLinesSkipped ==
  last.op = "load" =>
    config = config_parse_sized(WithoutLongLines(file, SmallLineSize - 1),
                                SmallLineSize)

(* -------------------------------- C19 ---------------------------------- *)
Spaces(n) == [i \in 1..n |-> " "]

\* the positions of a text a line can be put in at: its start, and after
\* each newline
LineStarts(text) == {0} \cup {p \in 1..Len(text) : text[p] = NL}

InsertAt(text, p, line) == SubSeq(text, 1, p) \o line \o Drop(text, p)

\* C19: blank lines are ignored: a line of whitespace only, of any length
\* up to the most the line buffer holds, put in at any position of the
\* file does not change the Store loaded
C19_BlankLinesIgnored ==
  last.op = "load" =>
    \A p \in LineStarts(file) : \A n \in 0..(SmallLineSize - 1) :
      config_parse_sized(InsertAt(file, p, Spaces(n) \o <<NL>>), SmallLineSize)
        = config

(* ----------------- config_sections_sort_by_entry_key ------------------- *)
\* number of entries of the section sorted
MaxEntries == 4

\* the nodes of a list are its positions; 0 is the end of the list (NULL)
list_begin(list) == IF list = <<>> THEN 0 ELSE 1
list_end(list) == 0
list_next(list, n) == IF n < Len(list) THEN n + 1 ELSE 0
list_length(list) == Len(list)

\* the comparators the caller supplies: order of the character codes,
\* and the same with letters of either case taken as equal
Comparators == {"strcmp", "strcasecmp"}

CharCode == [c \in {"B", "a", "b", "c"} |->
               IF c = "B" THEN 66 ELSE IF c = "a" THEN 97
               ELSE IF c = "b" THEN 98 ELSE 99]

tolower(c) == IF c = "B" THEN "b" ELSE c

\* comparison of two strings from position i on; fold: letters of either
\* case are equal
RECURSIVE compare_from(_, _, _, _)
compare_from(a, b, i, fold) ==
  IF i > Len(a) /\ i > Len(b) THEN 0
  ELSE IF i > Len(a) THEN 0 - 1
  ELSE IF i > Len(b) THEN 1
  ELSE LET x == IF fold THEN tolower(a[i]) ELSE a[i]
           y == IF fold THEN tolower(b[i]) ELSE b[i]
       IN  IF CharCode[x] < CharCode[y] THEN 0 - 1
           ELSE IF CharCode[x] > CharCode[y] THEN 1
           ELSE compare_from(a, b, i + 1, fold)

\* comp(first->key, second->key)
compare(cmp, a, b) == compare_from(a, b, 1, cmp = "strcasecmp")

\* the keys of the entries sorted, and the value each key has
SortKeys == {<<"a">>, <<"B">>, <<"b">>, <<"c">>, <<"a", "b">>}
SortValue(key) == <<"v">> \o key

\* the lists of at most n entries with different keys
EntryLists(n) ==
  UNION { { [i \in 1..m |-> entry_new(ks[i], SortValue(ks[i]))] :
              ks \in {f \in [1..m -> SortKeys] :
                        \A i, j \in 1..m : i # j => f[i] # f[j]} } :
          m \in 0..n }

\* the entries of the last section: one entry, two entries out of order,
\* two entries whose keys differ in case only
LastEntries ==
  { <<entry_new(<<"c">>, SortValue(<<"c">>))>>,
    <<entry_new(<<"b">>, SortValue(<<"b">>)),
      entry_new(<<"a">>, SortValue(<<"a">>))>>,
    <<entry_new(<<"b">>, SortValue(<<"b">>)),
      entry_new(<<"B">>, SortValue(<<"B">>))>> }

\* the Stores sorted: a section, a comment, a last section
SortStores ==
  { << [name |-> <<"s">>, entries |-> es],
       [name |-> <<"#", "c">>, entries |-> <<>>],
       [name |-> <<"t">>, entries |-> ls] >> :
      es \in EntryLists(MaxEntries), ls \in LastEntries }

\* the call config_sections_sort_by_entry_key(config, comp): the outer
\* loop is at the first section
InitSort ==
  /\ SaveIdle
  /\ config \in SortStores
  /\ clone = config_new_empty /\ file = <<>> /\ saved = NotSaved
  /\ pure = FALSE /\ last = NoCall /\ budget = 0 /\ hist = <<>>
  /\ spc = "sections"
  /\ comp \in Comparators
  /\ node = list_begin(config)
  /\ p_node = 0 /\ q_node = 0 /\ changed = FALSE
  /\ given = config

\* mutant: the keys change places and the values stay
swap_keys(entries, i, j) ==
  [entries EXCEPT ![i].key = entries[j].key, ![j].key = entries[i].key]

\* the keys and the values of two entries change places
swap(entries, i, j) ==
  [entries EXCEPT ![i] = entries[j], ![j] = entries[i]]

\* the loop over the sections: its test, and its body up to the while loop
SortSection ==
  /\ spc = "sections"
  /\ IF node = list_end(config)
     THEN spc' = "done" /\ UNCHANGED <<node, p_node, changed>>
     ELSE IF list_length(config[node].entries) <= 1
     THEN /\ node' = list_next(config, node)
          /\ UNCHANGED <<spc, p_node, changed>>
     ELSE /\ p_node' = list_end(config[node].entries)
          /\ changed' = TRUE
          /\ spc' = "while"
          /\ node' = node
  /\ UNCHANGED <<comp, q_node, given>>
  /\ UNCHANGED <<storeVars, saveVars, fsVars, readerVars>>

\* while (p != head_next && changed): a pass starts at the first entry, or
\* the section is done
SortWhile ==
  /\ spc = "while"
  /\ LET entries == config[node].entries
         head_next == list_next(entries, list_begin(entries))
     IN  IF p_node # head_next /\ changed
         THEN /\ q_node' = list_begin(entries)
              /\ changed' = FALSE
              /\ spc' = "for"
              /\ node' = node
         ELSE /\ node' = list_next(config, node)
              /\ spc' = "sections"
              /\ UNCHANGED <<q_node, changed>>
  /\ UNCHANGED <<comp, p_node, given>>
  /\ UNCHANGED <<storeVars, saveVars, fsVars, readerVars>>

\* for (; list_next(q) && list_next(q) != p; q = list_next(q)): one
\* comparison with its swap, or the end of the pass with p = q
SortFor ==
  /\ spc = "for"
  /\ LET entries == config[node].entries
         next == list_next(entries, q_node)
     IN  IF next # 0 /\ next # p_node
         THEN /\ IF compare(comp, entries[q_node].key, entries[next].key) > 0
                 THEN /\ config' = [config EXCEPT ![node].entries =
                                                    swap(entries, q_node, next)]
                      /\ changed' = TRUE
                 ELSE UNCHANGED <<config, changed>>
              /\ q_node' = next
              /\ UNCHANGED <<spc, p_node>>
         ELSE /\ p_node' = q_node
              /\ spc' = "while"
              /\ UNCHANGED <<config, changed, q_node>>
  /\ UNCHANGED <<comp, node, given>>
  /\ UNCHANGED <<clone, file, saved, pure, last, budget, hist>>
  /\ UNCHANGED <<saveVars, fsVars, readerVars>>

NextSort ==
  \/ SortSection
  \/ SortWhile
  \/ SortFor

\* the call runs on: a step that can be taken is taken
SpecSort == InitSort /\ [][NextSort]_vars /\ WF_vars(NextSort)

(* -------------------------------- C21 ---------------------------------- *)
\* the position of an entry in a list that holds it once
PlaceOf(entries, e) == CHOOSE k \in 1..Len(entries) : entries[k] = e

\* what the Store is like after the sort, against the Store given
SortedAfter ==
  /\ Len(config) = Len(given)
  /\ \A i \in 1..Len(given) :
       LET was == given[i].entries
           now == config[i].entries
       IN  /\ config[i].name = given[i].name
           /\ Len(now) = Len(was)
           /\ Len(was) <= 1 => now = was
           /\ \A a, b \in 1..Len(now) :
                a < b => compare(comp, now[a].key, now[b].key) <= 0
           /\ {now[a] : a \in 1..Len(now)} = {was[a] : a \in 1..Len(was)}
           /\ \A a, b \in 1..Len(was) :
                (a < b /\ compare(comp, was[a].key, was[b].key) = 0)
                  => PlaceOf(now, was[a]) < PlaceOf(now, was[b])

\* C21: config_sections_sort_by_entry_key terminates, and afterwards in
\* every section the entries are in non-decreasing order of key under the
\* comparator given, the (key, value) pairs of each section are those it
\* had, entries whose keys compare equal keep their relative order, and the
\* sections with at most one entry and the order of the sections are as
\* they were
C21_SortTerminatesSorted ==
  /\ <>(spc = "done")
  /\ [](spc = "done" => SortedAfter)

\* the sort is done on a section of four entries that were moved, two of
\* them with keys that compare equal and that have kept their order, beside
\* a comment and a section of one entry
C21_Witness ==
  /\ spc = "done"
  /\ comp = "strcasecmp"
  /\ Len(given[1].entries) = 4
  /\ config[1].entries # given[1].entries
  /\ \E a, b \in 1..4 :
       /\ a < b
       /\ given[1].entries[a].key = <<"b">>
       /\ given[1].entries[b].key = <<"B">>
       /\ PlaceOf(config[1].entries, given[1].entries[a]) # a
  /\ Len(given[3].entries) = 1
====
